---- MODULE Spec2Model ----
(***************************************************************************)
(* Heatmap decoding of gluoncv2/models/others/oth_simple_pose_resnet.py    *)
(* (get_max_pred, the sub-pixel refinement loop of _get_final_preds,       *)
(* get_affine_transform, transform_preds) and the shape flow of the ENet   *)
(* of pytorchcv/models/others/_enet.py.                                    *)
(*                                                                         *)
(* Numbers: heatmap values are integers; coordinates and transform         *)
(* entries are exact rationals <<numerator, denominator>> in lowest terms  *)
(* with a positive denominator (the float32/float64 rounding of the code   *)
(* is not modelled).  Arrays are indexed from 0 as in the code.            *)
(***************************************************************************)
EXTENDS Integers, Sequences, FiniteSets, TLC

VARIABLES
    batch_heatmaps, \* [shape: sequence of dimensions, data: row-major values]
    center,         \* sequence of <<cx, cy>>, one per row of the center array
    scale,          \* sequence of <<sx, sy>>, one per row of the scale array
    pc,             \* position in _get_final_preds
    coords,         \* coords[n][p] = <<x, y>> (rationals), heatmap space
    maxvals,        \* maxvals[n][p]
    preds,          \* preds[i][p] = <<x, y>> (rationals), image space
    n, p,           \* indices of the post-processing loop
    i,              \* index of the transform-back loop
    err,            \* the exception raised, "" when none
    result,         \* what _get_final_preds returned, "none" before it returns
    reads,          \* the <<n, p, y, x>> of every hm[y][x] the loop has indexed
    \* get_affine_transform and affine_transform, called on their own
    t_args,         \* [center, scale, rot, output_size, shift] given to get_affine_transform
    point,          \* a point <<x, y>> (rationals)
    t_pc,           \* position of the caller
    src_points,     \* src, the three source reference points
    dst_points,     \* dst, the three destination reference points
    trans_fwd,      \* get_affine_transform(..., inv=0)
    trans_inv,      \* get_affine_transform(..., inv=1)
    there_back,     \* pt through trans, then through trans_inv
    back_there,     \* pt through trans_inv, then through trans
    \* transform_preds, called twice on its own
    tp_args,        \* [coords, center, scale, other, output_size]: the arguments, and
                    \* the second component of scale in the other call
    tp_pc,          \* position of the caller
    target_coords,  \* transform_preds(coords, center, scale, output_size)
    target_coords_other, \* the same with <<scale[0], other>> for scale
    \* ENet.forward
    net_in,         \* size <<batch, channels, height, width>> of the input
    net_x,          \* [ok, size] of x; ok is FALSE once a layer has raised
    max_indices1,   \* size of the pooling indices of stage1
    max_indices2,   \* size of the pooling indices of stage2
    net_pc,         \* position in ENet.forward
    net_unit        \* the unit of the stage that runs next, from 1

poseVars == <<batch_heatmaps, center, scale, pc, coords, maxvals, preds, n, p, i, err, result,
              reads>>
tpVars == <<tp_args, tp_pc, target_coords, target_coords_other>>
affineVars == <<t_args, point, t_pc, src_points, dst_points, trans_fwd, trans_inv,
                there_back, back_there, tpVars>>
enetVars == <<net_in, net_x, max_indices1, max_indices2, net_pc, net_unit>>

----------------------------------------------------------------------------
(* Bounds of the checked inputs.                                           *)

MaxBatch == 2
MaxSize == 24

MaxH == 5
MaxW == 5
MaxN == 2
MaxJ == 2
MaxD == 2
MaxRank == 5

----------------------------------------------------------------------------
(* Exact rational arithmetic.                                              *)

Abs(a) == IF a < 0 THEN -a ELSE a

RECURSIVE GCD(_, _)
GCD(a, b) == IF b = 0 THEN a ELSE GCD(b, a % b)

Norm(a, b) ==
    LET g == GCD(Abs(a), Abs(b))
        s == IF b < 0 THEN -1 ELSE 1
    IN  <<(s * a) \div g, (s * b) \div g>>

R(a) == <<a, 1>>
Half == <<1, 2>>
Quarter == <<1, 4>>
RAdd(a, b) == Norm(a[1] * b[2] + b[1] * a[2], a[2] * b[2])
RSub(a, b) == Norm(a[1] * b[2] - b[1] * a[2], a[2] * b[2])
RMul(a, b) == Norm(a[1] * b[1], a[2] * b[2])
RDiv(a, b) == Norm(a[1] * b[2], a[2] * b[1])
RNeg(a) == <<-a[1], a[2]>>
RFloor(a) == a[1] \div a[2]
Sign(a) == IF a > 0 THEN 1 ELSE IF a < 0 THEN -1 ELSE 0

(* 2-vectors of rationals *)
VAdd(u, v) == <<RAdd(u[1], v[1]), RAdd(u[2], v[2])>>
VSub(u, v) == <<RSub(u[1], v[1]), RSub(u[2], v[2])>>
VMul(u, v) == <<RMul(u[1], v[1]), RMul(u[2], v[2])>>
RV(v) == <<R(v[1]), R(v[2])>>

----------------------------------------------------------------------------
(* Tensors: shape and row-major data.                                      *)

RECURSIVE Prod(_)
Prod(s) == IF s = <<>> THEN 1 ELSE Head(s) * Prod(Tail(s))

Rank(t) == Len(t.shape)

(* Length of one grid of batch_heatmaps.reshape((batch_size, num_joints, -1)) *)
SliceLen(t) == Prod(t.shape) \div (t.shape[1] * t.shape[2])

----------------------------------------------------------------------------
(* get_max_pred                                                            *)

(* mx.nd.argmax over a flattened grid g of len values: a scan that keeps   *)
(* the first position holding the largest value.                           *)
RECURSIVE ArgmaxFrom(_, _, _, _)
ArgmaxFrom(g, len, k, best) ==
    IF k >= len THEN best
    ELSE ArgmaxFrom(g, len, k + 1, IF g[k] > g[best] THEN k ELSE best)

(* mx.nd.max over a flattened grid g of len values *)
RECURSIVE MaxFrom(_, _, _, _)
MaxFrom(g, len, k, best) ==
    IF k >= len THEN best
    ELSE MaxFrom(g, len, k + 1, IF g[k] > best THEN g[k] ELSE best)

max(g, len) == MaxFrom(g, len, 1, g[0])

(* Mutant of argmax: keeps the last position holding the largest value. *)
RECURSIVE ArgmaxLastFrom(_, _, _, _)
ArgmaxLastFrom(g, len, k, best) ==
    IF k >= len THEN best
    ELSE ArgmaxLastFrom(g, len, k + 1, IF g[k] >= g[best] THEN k ELSE best)

argmax_last(g, len) == ArgmaxLastFrom(g, len, 1, 0)

argmax(g, len) == ArgmaxFrom(g, len, 1, 0)

(* Mutant of pred_mask: keeps the coordinate of a maximum equal to 0. *)
pred_mask_ge(mv) == IF mv >= 0 THEN 1 ELSE 0

(* Mutant of pred_mask: no coordinate is masked. *)
pred_mask_none(mv) == 1

(* pred_mask: mx.nd.greater(maxvals, 0.0) as 0/1 *)
pred_mask(mv) == IF mv > 0 THEN 1 ELSE 0

(* Mutant of width: the number of rows taken for the width. *)
width_from_rows(t) == t.shape[3]

(* width = batch_heatmaps.shape[3] *)
width(t) == t.shape[4]

(* The preds and maxvals get_max_pred returns (the tensor has rank >= 4). *)
get_max_pred(t) ==
    LET batch_size == t.shape[1]
        num_joints == t.shape[2]
        len == SliceLen(t)
        heatmaps_reshaped(nn, pp) ==
            LET off == (nn * num_joints + pp) * len
            IN  [k \in 0..(len - 1) |-> t.data[off + k]]
        one(nn, pp) ==
            LET g == heatmaps_reshaped(nn, pp)
                idx == argmax(g, len)
                mv == max(g, len)
                m == pred_mask(mv)
            IN  [pred |-> <<R((idx % width(t)) * m), R((idx \div width(t)) * m)>>, maxval |-> mv]
        all == [nn \in 0..(batch_size - 1) |-> [pp \in 0..(num_joints - 1) |-> one(nn, pp)]]
    IN  [preds |-> [nn \in 0..(batch_size - 1) |-> [pp \in 0..(num_joints - 1) |-> all[nn][pp].pred]],
         maxvals |-> [nn \in 0..(batch_size - 1) |-> [pp \in 0..(num_joints - 1) |-> all[nn][pp].maxval]]]

----------------------------------------------------------------------------
(* The post-processing loop body of _get_final_preds, for joint (nn, pp).  *)

heatmap_height(t) == t.shape[3]
heatmap_width(t) == t.shape[4]

(* Number of values under one hm[py][px]: 1 for a 4-D batch. *)
Trail(t) == Prod(SubSeq(t.shape, 5, Len(t.shape)))

(* First value of batch_heatmaps[nn][pp][py][px] *)
Cell(t, nn, pp, py, px) ==
    t.data[(((nn * t.shape[2] + pp) * t.shape[3] + py) * t.shape[4] + px) * Trail(t)]

(* Mutant of InBand: px = 1 and py = 1 taken for interior. *)
InBand_inclusive(t, px, py) ==
    /\ 1 <= px /\ px < heatmap_width(t) - 1
    /\ 1 <= py /\ py < heatmap_height(t) - 1

(* Mutant of InBand: the band starts at px = 1 and py = 1. *)
InBand_from_one(t, px, py) ==
    /\ 0 < px /\ px < heatmap_width(t) - 1
    /\ 0 < py /\ py < heatmap_height(t) - 1

(* 1 < px < heatmap_width-1 and 1 < py < heatmap_height-1 *)
InBand(t, px, py) ==
    /\ 1 < px /\ px < heatmap_width(t) - 1
    /\ 1 < py /\ py < heatmap_height(t) - 1

(* int(floor(c + 0.5)) *)
Rounded(c) == RFloor(RAdd(c, Half))

(* Mutant of Shift: the differences taken the other way round. *)
Shift_reversed(t, nn, pp, px, py) ==
    <<RMul(R(Sign(Cell(t, nn, pp, py, px - 1) - Cell(t, nn, pp, py, px + 1))), Quarter),
      RMul(R(Sign(Cell(t, nn, pp, py - 1, px) - Cell(t, nn, pp, py + 1, px))), Quarter)>>

(* mx.nd.sign(diff) * .25 for the two differences *)
Shift(t, nn, pp, px, py) ==
    <<RMul(R(Sign(Cell(t, nn, pp, py, px + 1) - Cell(t, nn, pp, py, px - 1))), Quarter),
      RMul(R(Sign(Cell(t, nn, pp, py + 1, px) - Cell(t, nn, pp, py - 1, px))), Quarter)>>

(* The <<y, x>> of the hm[y][x] one iteration indexes: the four neighbours *)
(* of (py, px) in the band, nothing outside it.                            *)
loop_reads(t, co) ==
    LET px == Rounded(co[1])
        py == Rounded(co[2])
    IN  IF InBand(t, px, py)
        THEN {<<py, px + 1>>, <<py, px - 1>>, <<py + 1, px>>, <<py - 1, px>>}
        ELSE {}

(* In the band the two differences are concatenated and added in place to  *)
(* the 2-vector coords[n][p]: each difference holds Trail(t) values, so    *)
(* the addition has matching shapes only for a 4-D batch or a 5-D batch    *)
(* whose last dimension is 1.                                              *)
post_processing(t, co, nn, pp) ==
    LET px == Rounded(co[1])
        py == Rounded(co[2])
    IN  IF ~InBand(t, px, py) THEN [err |-> "", coord |-> co]
        ELSE IF Rank(t) = 4 \/ (Rank(t) = 5 /\ t.shape[5] = 1)
             THEN [err |-> "", coord |-> VAdd(co, Shift(t, nn, pp, px, py))]
             ELSE [err |-> "MXNetError", coord |-> co]

----------------------------------------------------------------------------
(* The affine transform.                                                   *)

(* np.sin / np.cos of pi*rot/180, for rot a multiple of 90 degrees *)
Sin(rot) == CASE rot % 360 = 0 -> 0 [] rot % 360 = 90 -> 1
              [] rot % 360 = 180 -> 0 [] rot % 360 = 270 -> -1
Cos(rot) == CASE rot % 360 = 0 -> 1 [] rot % 360 = 90 -> 0
              [] rot % 360 = 180 -> -1 [] rot % 360 = 270 -> 0

get_dir(src_point, rot) ==
    LET sn == R(Sin(rot))
        cs == R(Cos(rot))
    IN  <<RSub(RMul(src_point[1], cs), RMul(src_point[2], sn)),
          RAdd(RMul(src_point[1], sn), RMul(src_point[2], cs))>>

(* Mutant of get_3rd_point: the difference is added without the quarter   *)
(* turn.                                                                   *)
get_3rd_point_unrotated(a, b) ==
    LET direct == VSub(a, b)
    IN  VAdd(b, direct)

get_3rd_point(a, b) ==
    LET direct == VSub(a, b)
    IN  VAdd(b, <<RNeg(direct[2]), direct[1]>>)

(* affine_transform(pt, t): the 2x3 matrix t applied to (pt[0], pt[1], 1) *)
affine_transform(pt, t) ==
    <<RAdd(RAdd(RMul(t[1][1], pt[1]), RMul(t[1][2], pt[2])), t[1][3]),
      RAdd(RAdd(RMul(t[2][1], pt[1]), RMul(t[2][2], pt[2])), t[2][3])>>

ZeroTrans == <<<<R(0), R(0), R(0)>>, <<R(0), R(0), R(0)>>>>

(* u[1]*v[2] - u[2]*v[1] *)
Cross2(u, v) == RSub(RMul(u[1], v[2]), RMul(u[2], v[1]))

(* cv2.getAffineTransform(from, to): the 2x3 matrix M with                 *)
(* M (x, y, 1) = (u, v) for the three point pairs, solved exactly: the     *)
(* linear part from the two edge vectors of each triangle, the translation *)
(* from the first pair.  cv::solve leaves the matrix all zero when the     *)
(* system is singular (the from points are collinear) and raises nothing.  *)
getAffineTransform(from, to) ==
    LET e1 == VSub(from[2], from[1])
        e2 == VSub(from[3], from[1])
        f1 == VSub(to[2], to[1])
        f2 == VSub(to[3], to[1])
        d == Cross2(e1, e2)
        Row(c) ==
            LET a1 == RDiv(RSub(RMul(f1[c], e2[2]), RMul(f2[c], e1[2])), d)
                a2 == RDiv(RSub(RMul(f2[c], e1[1]), RMul(f1[c], e2[1])), d)
            IN  <<a1, a2, RSub(to[1][c], RAdd(RMul(a1, from[1][1]), RMul(a2, from[1][2])))>>
    IN  IF d = R(0) THEN ZeroTrans ELSE <<Row(1), Row(2)>>

(* A scalar scale, written here as the one-element <<s>>, is broadcast to   *)
(* both axes (lines 68-69); an array scale <<sx, sy>> is used as it is.    *)
ScaleVec(sc) == IF Len(sc) = 1 THEN <<sc[1], sc[1]>> ELSE sc

(* Mutant of SrcPoints: src_w taken from the second component of scale. *)
SrcPoints_height(ctr, sc, rot, shift) ==
    LET scale_tmp == RV(ScaleVec(sc))
        src_w == scale_tmp[2]
        src_dir == get_dir(<<R(0), RMul(src_w, RNeg(Half))>>, rot)
        s0 == VAdd(RV(ctr), VMul(scale_tmp, RV(shift)))
        s1 == VAdd(VAdd(RV(ctr), src_dir), VMul(scale_tmp, RV(shift)))
    IN  <<s0, s1, get_3rd_point(s0, s1)>>

(* The three source and the three destination reference points. *)
SrcPoints(ctr, sc, rot, shift) ==
    LET scale_tmp == RV(ScaleVec(sc))
        src_w == scale_tmp[1]
        src_dir == get_dir(<<R(0), RMul(src_w, RNeg(Half))>>, rot)
        s0 == VAdd(RV(ctr), VMul(scale_tmp, RV(shift)))
        s1 == VAdd(VAdd(RV(ctr), src_dir), VMul(scale_tmp, RV(shift)))
    IN  <<s0, s1, get_3rd_point(s0, s1)>>

(* Mutant of DstPoints: dst_dir taken from the height. *)
DstPoints_height(output_size) ==
    LET dst_w == R(output_size[1])
        dst_h == R(output_size[2])
        dst_dir == <<R(0), RMul(dst_h, RNeg(Half))>>
        d0 == <<RMul(dst_w, Half), RMul(dst_h, Half)>>
        d1 == VAdd(d0, dst_dir)
    IN  <<d0, d1, get_3rd_point(d0, d1)>>

DstPoints(output_size) ==
    LET dst_w == R(output_size[1])
        dst_h == R(output_size[2])
        dst_dir == <<R(0), RMul(dst_w, RNeg(Half))>>
        d0 == <<RMul(dst_w, Half), RMul(dst_h, Half)>>
        d1 == VAdd(d0, dst_dir)
    IN  <<d0, d1, get_3rd_point(d0, d1)>>

(* Mutant of get_affine_transform: inv is not looked at. *)
get_affine_transform_forward_only(ctr, sc, rot, output_size, shift, inv) ==
    getAffineTransform(SrcPoints(ctr, sc, rot, shift), DstPoints(output_size))

get_affine_transform(ctr, sc, rot, output_size, shift, inv) ==
    LET src == SrcPoints(ctr, sc, rot, shift)
        dst == DstPoints(output_size)
    IN  IF inv # 0 THEN getAffineTransform(dst, src)
        ELSE getAffineTransform(src, dst)

(* Mutant of transform_preds: the forward transform instead of the inverse. *)
transform_preds_forward(cs, ctr, sc, output_size) ==
    LET trans == get_affine_transform(ctr, sc, 0, output_size, <<0, 0>>, 0)
    IN  [pp \in DOMAIN cs |-> affine_transform(cs[pp], trans)]

(* transform_preds for one image: every joint's coordinate through the     *)
(* inverse transform with rotation 0 and the default shift.                *)
transform_preds(cs, ctr, sc, output_size) ==
    LET trans == get_affine_transform(ctr, sc, 0, output_size, <<0, 0>>, 1)
    IN  [pp \in DOMAIN cs |-> affine_transform(cs[pp], trans)]

----------------------------------------------------------------------------
(* Inputs of _get_final_preds.                                             *)

CenterScales == {<<<<3, 4>>, <<4, 8>>>>, <<<<2, 2>>, <<4, 4>>>>, <<<<3, 4>>, <<0, 0>>>>}

(* A heatmap batch of one image and one joint: a cross of values around    *)
(* the cell (r, c) on a flat background, all shifted by base.              *)
Bases == {-3, 0}
PeakVals == {2, 3}
CrossVals == {0, 2}
CrossData(H, W, r, c, base, cv, l, rt, u, d) ==
    [k \in 0..(H * W - 1) |->
        LET y == k \div W
            x == k % W
        IN  base + (IF y = r /\ x = c THEN cv
                    ELSE IF y = r /\ x = c - 1 THEN l
                    ELSE IF y = r /\ x = c + 1 THEN rt
                    ELSE IF y = r - 1 /\ x = c THEN u
                    ELSE IF y = r + 1 /\ x = c THEN d
                    ELSE 0)]

SingleInputs ==
    {[shape |-> <<1, 1, H, W>>, data |-> CrossData(H, W, r, c, base, cv, l, rt, u, d)] :
        <<H, W, r, c, base, cv, l, rt, u, d>> \in
            {q \in (1..MaxH) \X (1..MaxW) \X (0..(MaxH - 1)) \X (0..(MaxW - 1)) \X Bases
                   \X PeakVals \X CrossVals \X CrossVals \X CrossVals \X CrossVals :
                q[3] < q[1] /\ q[4] < q[2]}}

(* Batches of any rank up to MaxRank, of up to MaxN images and MaxJ        *)
(* joints, with grids of MaxH rows and MaxW - 1 columns.  Joint number q   *)
(* (counted through the batch) holds the single value q + 1 at position    *)
(* pk + 3 q of its flattened grid and 0 elsewhere; joint numbers off and   *)
(* off + 1, if any, are all zero.                                          *)
BatchShapes ==
    {SubSeq(<<N, J, MaxH, MaxW - 1, D>>, 1, rank) :
        <<N, J, D, rank>> \in (1..MaxN) \X (1..MaxJ) \X (1..MaxD) \X (1..5)}
    \cup {<<1, 1, MaxH, MaxW - 1>> \o [k \in 1..(rank - 4) |-> 1] : rank \in 5..MaxRank}

BatchData(sh, pk, off) ==
    LET L == IF Len(sh) < 3 THEN 1 ELSE Prod(sh) \div (sh[1] * sh[2])
    IN  [k \in 0..(Prod(sh) - 1) |->
            LET q == k \div L
            IN  IF q \notin {off, off + 1} /\ k % L = (pk + 3 * q) % L THEN q + 1 ELSE 0]

BatchInputs ==
    UNION {
        IF Len(sh) < 3 THEN {[shape |-> sh, data |-> BatchData(sh, 0, 0)]}
        ELSE {[shape |-> sh, data |-> BatchData(sh, pk, off)] :
                 <<pk, off>> \in (0..(Prod(sh) \div (sh[1] * sh[2]) - 1)) \X (0..(sh[1] * sh[2]))}
        : sh \in BatchShapes}

(* Center and scale arrays of len equal rows. *)
Rows(v, len) == [k \in 1..len |-> v]

InitSingle ==
    /\ batch_heatmaps \in SingleInputs
    /\ \E cs \in CenterScales : center = <<cs[1]>> /\ scale = <<cs[2]>>

(* The center and scale arrays have one row per image, or one of them has  *)
(* a row less or a row more.                                               *)
InitBatch ==
    /\ batch_heatmaps \in BatchInputs
    /\ \E lens \in {<<0, 0>>, <<-1, 0>>, <<1, 0>>, <<0, -1>>, <<0, 1>>} :
          /\ center = Rows(<<3, 4>>, batch_heatmaps.shape[1] + lens[1])
          /\ scale = Rows(<<4, 8>>, batch_heatmaps.shape[1] + lens[2])

(* _get_final_preds has not been called. *)
PoseIdle ==
    /\ batch_heatmaps = [shape |-> <<>>, data |-> <<>>]
    /\ center = <<>>
    /\ scale = <<>>
    /\ pc = "idle"
    /\ coords = <<>>
    /\ maxvals = <<>>
    /\ preds = <<>>
    /\ n = 0
    /\ p = 0
    /\ i = 0
    /\ err = ""
    /\ result = "none"
    /\ reads = {}

(* transform_preds has not been called on its own. *)
TransformPredsIdle ==
    /\ tp_args = <<>>
    /\ tp_pc = "idle"
    /\ target_coords = <<>>
    /\ target_coords_other = <<>>

(* get_affine_transform has not been called on its own. *)
GetAffineIdle ==
    /\ t_args = <<>>
    /\ point = <<>>
    /\ t_pc = "idle"
    /\ src_points = <<>>
    /\ dst_points = <<>>
    /\ trans_fwd = <<>>
    /\ trans_inv = <<>>
    /\ there_back = <<>>
    /\ back_there = <<>>

AffineIdle == GetAffineIdle /\ TransformPredsIdle

(* ENet.forward has not been called. *)
ENetIdle ==
    /\ net_in = <<>>
    /\ net_x = <<>>
    /\ max_indices1 = <<>>
    /\ max_indices2 = <<>>
    /\ net_pc = "idle"
    /\ net_unit = 1

Init ==
    /\ AffineIdle
    /\ ENetIdle
    /\ InitSingle \/ InitBatch
    /\ pc = "start"
    /\ coords = <<>>
    /\ maxvals = <<>>
    /\ preds = <<>>
    /\ n = 0
    /\ p = 0
    /\ i = 0
    /\ err = ""
    /\ result = "none"
    /\ reads = {}

----------------------------------------------------------------------------
(* _get_final_preds, step by step.                                         *)

notPose == <<affineVars, enetVars>>

(* Line 110: coords, maxvals = get_max_pred(batch_heatmaps); shape[3] of a *)
(* batch of rank below 4 raises IndexError.                                *)
GetMaxPred ==
    /\ pc = "start"
    /\ IF Rank(batch_heatmaps) < 4
       THEN /\ pc' = "error"
            /\ err' = "IndexError"
            /\ UNCHANGED <<coords, maxvals>>
       ELSE /\ LET r == get_max_pred(batch_heatmaps)
               IN  coords' = r.preds /\ maxvals' = r.maxvals
            /\ pc' = "post"
            /\ err' = ""
    /\ n' = 0
    /\ p' = 0
    /\ UNCHANGED <<batch_heatmaps, center, scale, preds, i, result, reads, notPose>>

(* Lines 116-125: one iteration of the post-processing loop; line 127      *)
(* after the last one.                                                     *)
PostProcessing ==
    /\ pc = "post"
    /\ LET r == post_processing(batch_heatmaps, coords[n][p], n, p)
           last == (n = batch_heatmaps.shape[1] - 1) /\ (p = batch_heatmaps.shape[2] - 1)
       IN  IF r.err # ""
           THEN /\ pc' = "error"
                /\ err' = r.err
                /\ UNCHANGED <<coords, preds, n, p>>
           ELSE /\ coords' = [coords EXCEPT ![n][p] = r.coord]
                /\ err' = ""
                /\ IF last
                   THEN /\ pc' = "transform"
                        /\ preds' = [nn \in DOMAIN coords |-> [pp \in DOMAIN coords[nn] |-> <<R(0), R(0)>>]]
                        /\ UNCHANGED <<n, p>>
                   ELSE /\ pc' = "post"
                        /\ p' = IF p = batch_heatmaps.shape[2] - 1 THEN 0 ELSE p + 1
                        /\ n' = IF p = batch_heatmaps.shape[2] - 1 THEN n + 1 ELSE n
                        /\ UNCHANGED preds
    /\ reads' = reads \cup {<<n, p, c[1], c[2]>> : c \in loop_reads(batch_heatmaps, coords[n][p])}
    /\ UNCHANGED <<batch_heatmaps, center, scale, maxvals, i, result, notPose>>

(* Lines 130-132: one iteration of the transform-back loop; center_[i] and *)
(* scale_[i] raise IndexError past the end of the array.                   *)
TransformBack ==
    /\ pc = "transform"
    /\ IF i >= Len(center) \/ i >= Len(scale)
       THEN /\ pc' = "error"
            /\ err' = "IndexError"
            /\ UNCHANGED <<preds, i>>
       ELSE /\ preds' = [preds EXCEPT ![i] =
                            transform_preds(coords[i], center[i + 1], scale[i + 1],
                                            <<heatmap_width(batch_heatmaps),
                                              heatmap_height(batch_heatmaps)>>)]
            /\ err' = ""
            /\ i' = i + 1
            /\ pc' = IF i + 1 = batch_heatmaps.shape[1] THEN "return" ELSE "transform"
    /\ UNCHANGED <<batch_heatmaps, center, scale, coords, maxvals, n, p, result, reads, notPose>>

(* Line 134: return preds, maxvals *)
Return ==
    /\ pc = "return"
    /\ result' = [preds |-> preds, maxvals |-> maxvals]
    /\ pc' = "done"
    /\ UNCHANGED <<batch_heatmaps, center, scale, coords, maxvals, preds, n, p, i, err, reads,
                   notPose>>

_get_final_preds == GetMaxPred \/ PostProcessing \/ TransformBack \/ Return

vars == <<poseVars, affineVars, enetVars>>

Next == _get_final_preds

Spec == Init /\ [][Next]_vars

----------------------------------------------------------------------------
(* get_affine_transform called in both directions on the same arguments,   *)
(* and a point taken through the two transforms.                           *)

TransformArgs ==
    [center : {<<0, 0>>, <<3, 4>>, <<48, 64>>},
     scale : {<<0>>, <<4>>, <<0, 0>>, <<0, 5>>, <<5, 0>>, <<4, 8>>, <<96, 128>>},
     rot : {0, 90, 180, 270},
     output_size : {<<0, 4>>, <<4, 5>>, <<48, 64>>},
     shift : {<<0, 0>>, <<1, 2>>}]

Points == {<<R(0), R(0)>>, <<R(7), R(5)>>, <<<<-13, 4>>, <<21, 2>>>>}

InitAffine ==
    /\ PoseIdle
    /\ ENetIdle
    /\ TransformPredsIdle
    /\ t_args \in TransformArgs
    /\ point \in Points
    /\ t_pc = "start"
    /\ src_points = <<>>
    /\ dst_points = <<>>
    /\ trans_fwd = <<>>
    /\ trans_inv = <<>>
    /\ there_back = <<>>
    /\ back_there = <<>>

Forward ==
    /\ t_pc = "start"
    /\ src_points' = SrcPoints(t_args.center, t_args.scale, t_args.rot, t_args.shift)
    /\ dst_points' = DstPoints(t_args.output_size)
    /\ trans_fwd' = get_affine_transform(t_args.center, t_args.scale, t_args.rot,
                                         t_args.output_size, t_args.shift, 0)
    /\ t_pc' = "forward"
    /\ UNCHANGED <<t_args, point, trans_inv, there_back, back_there, tpVars, poseVars, enetVars>>

Inverse ==
    /\ t_pc = "forward"
    /\ src_points' = SrcPoints(t_args.center, t_args.scale, t_args.rot, t_args.shift)
    /\ dst_points' = DstPoints(t_args.output_size)
    /\ trans_inv' = get_affine_transform(t_args.center, t_args.scale, t_args.rot,
                                         t_args.output_size, t_args.shift, 1)
    /\ t_pc' = "inverse"
    /\ UNCHANGED <<t_args, point, trans_fwd, there_back, back_there, tpVars, poseVars, enetVars>>

RoundTrip ==
    /\ t_pc = "inverse"
    /\ there_back' = affine_transform(affine_transform(point, trans_fwd), trans_inv)
    /\ back_there' = affine_transform(affine_transform(point, trans_inv), trans_fwd)
    /\ t_pc' = "done"
    /\ UNCHANGED <<t_args, point, src_points, dst_points, trans_fwd, trans_inv,
                   tpVars, poseVars, enetVars>>

NextAffine == Forward \/ Inverse \/ RoundTrip

SpecAffine == InitAffine /\ [][NextAffine]_vars

----------------------------------------------------------------------------
(* transform_preds called twice on the same coordinates, center and output *)
(* size, with two scales that differ in their second component only.       *)

CoordArrays ==
    {[pp \in 0..1 |-> q[pp + 1]] :
        q \in {<<<<R(0), R(0)>>, <<R(2), R(3)>>>>,
               <<<<<<9, 4>>, <<11, 4>>>>, <<R(1), R(0)>>>>}}

TransformPredsArgs ==
    {a \in [coords : CoordArrays,
            center : {<<0, 0>>, <<3, 4>>, <<48, 64>>},
            scale : {0, 4, 96} \X {0, 8, 128},
            other : {0, 5, 8, 128},
            output_size : {<<1, 1>>, <<4, 5>>, <<48, 64>>}] :
        a.other # a.scale[2]}

InitTransformPreds ==
    /\ PoseIdle
    /\ ENetIdle
    /\ GetAffineIdle
    /\ tp_args \in TransformPredsArgs
    /\ tp_pc = "start"
    /\ target_coords = <<>>
    /\ target_coords_other = <<>>

TransformPreds ==
    /\ tp_pc = "start"
    /\ target_coords' = transform_preds(tp_args.coords, tp_args.center, tp_args.scale,
                                        tp_args.output_size)
    /\ tp_pc' = "other"
    /\ UNCHANGED <<tp_args, target_coords_other, t_args, point, t_pc, src_points, dst_points,
                   trans_fwd, trans_inv, there_back, back_there, poseVars, enetVars>>

TransformPredsOther ==
    /\ tp_pc = "other"
    /\ target_coords_other' = transform_preds(tp_args.coords, tp_args.center,
                                              <<tp_args.scale[1], tp_args.other>>,
                                              tp_args.output_size)
    /\ tp_pc' = "done"
    /\ UNCHANGED <<tp_args, target_coords, t_args, point, t_pc, src_points, dst_points,
                   trans_fwd, trans_inv, there_back, back_there, poseVars, enetVars>>

NextTransformPreds == TransformPreds \/ TransformPredsOther

SpecTransformPreds == InitTransformPreds /\ [][NextTransformPreds]_vars

----------------------------------------------------------------------------
(* ENet: the sizes of the tensors through the layers.  A tensor is         *)
(* [ok, size] with size = <<batch, channels, height, width>>; a layer      *)
(* given a tensor it cannot take, and every layer after it, yields Raised. *)

Raised == [ok |-> FALSE, size |-> <<0, 0, 0, 0>>]
Tensor(sz) == [ok |-> TRUE, size |-> sz]

(* Output length of a convolution or pooling window along one axis *)
ConvOut(len, k, stride, pad, dil) == (len + 2 * pad - dil * (k - 1) - 1) \div stride + 1

(* nn.Conv2d with kernel (kh, kw), padding (ph, pw), dilation (dh, dw) *)
Conv2d(t, in_channels, out_channels, kh, kw, stride, ph, pw, dh, dw) ==
    IF ~t.ok \/ t.size[2] # in_channels
       \/ t.size[3] + 2 * ph < dh * (kh - 1) + 1
       \/ t.size[4] + 2 * pw < dw * (kw - 1) + 1
    THEN Raised
    ELSE Tensor(<<t.size[1], out_channels,
                  ConvOut(t.size[3], kh, stride, ph, dh),
                  ConvOut(t.size[4], kw, stride, pw, dw)>>)

(* nn.MaxPool2d: the pooled tensor; its indices have the same size. *)
MaxPool2d(t, k, stride, pad) ==
    IF ~t.ok \/ t.size[3] + 2 * pad < k \/ t.size[4] + 2 * pad < k
    THEN Raised
    ELSE Tensor(<<t.size[1], t.size[2],
                  ConvOut(t.size[3], k, stride, pad, 1),
                  ConvOut(t.size[4], k, stride, pad, 1)>>)

(* nn.MaxUnpool2d(kernel_size=k): the indices must have the size of the    *)
(* input; the stride is the kernel size.                                   *)
MaxUnpool2d(t, indices, k) ==
    IF ~t.ok \/ indices # t.size THEN Raised
    ELSE Tensor(<<t.size[1], t.size[2],
                  (t.size[3] - 1) * k + k, (t.size[4] - 1) * k + k>>)

(* nn.ConvTranspose2d *)
ConvTranspose2d(t, in_channels, out_channels, k, stride, pad, out_pad, dil) ==
    IF ~t.ok \/ t.size[2] # in_channels THEN Raised
    ELSE Tensor(<<t.size[1], out_channels,
                  (t.size[3] - 1) * stride - 2 * pad + dil * (k - 1) + out_pad + 1,
                  (t.size[4] - 1) * stride - 2 * pad + dil * (k - 1) + out_pad + 1>>)

(* torch.cat((a, b), dim=1) *)
Cat(a, b) ==
    IF ~a.ok \/ ~b.ok \/ a.size[1] # b.size[1] \/ a.size[3] # b.size[3] \/ a.size[4] # b.size[4]
    THEN Raised
    ELSE Tensor(<<a.size[1], a.size[2] + b.size[2], a.size[3], a.size[4]>>)

(* a + b with broadcasting: along every axis the lengths are equal or one  *)
(* of them is 1.                                                           *)
Add(a, b) ==
    IF ~a.ok \/ ~b.ok
       \/ \E k \in 1..4 : a.size[k] # b.size[k] /\ a.size[k] # 1 /\ b.size[k] # 1
    THEN Raised
    ELSE Tensor([k \in 1..4 |-> IF a.size[k] = 1 THEN b.size[k] ELSE a.size[k]])

(* The blocks of common.py, by the layers their arguments describe. *)
NormActivation(t, in_channels) == IF t.ok /\ t.size[2] = in_channels THEN t ELSE Raised
conv1x1_block(t, in_channels, out_channels) ==
    NormActivation(Conv2d(t, in_channels, out_channels, 1, 1, 1, 0, 0, 1, 1), out_channels)
ConvBlock(t, in_channels, out_channels, k, stride, pad, dil) ==
    NormActivation(Conv2d(t, in_channels, out_channels, k, k, stride, pad, pad, dil, dil),
                   out_channels)
AsymConvBlock(t, chans, k, pad, dil) ==
    Conv2d(Conv2d(t, chans, chans, k, 1, 1, pad, 0, dil, 1), chans, chans, 1, k, 1, 0, pad, 1, dil)
DeconvBlock(t, in_channels, out_channels, k, stride, pad, out_pad, dil) ==
    NormActivation(ConvTranspose2d(t, in_channels, out_channels, k, stride, pad, out_pad, dil),
                   out_channels)

(* InitBlock.forward *)
InitBlock(t, in_channels, out_channels, k, pad) ==
    LET x1 == Conv2d(t, in_channels, out_channels - in_channels, k, k, 2, pad, pad, 1, 1)
        x2 == MaxPool2d(t, k, 2, pad)
    IN  NormActivation(Cat(x1, x2), out_channels)

(* DownBlock.forward: the pooled tensor padded with ext_channels channels, *)
(* and the size of the pooling indices.                                    *)
DownBlock(t, ext_channels, k, pad) ==
    LET pooled == MaxPool2d(t, k, 2, pad)
    IN  [x |-> IF pooled.ok
               THEN Tensor(<<pooled.size[1], pooled.size[2] + ext_channels,
                             pooled.size[3], pooled.size[4]>>)
               ELSE Raised,
         max_indices |-> pooled.size]

(* UpBlock.forward *)
UpBlock(t, max_indices, in_channels, out_channels) ==
    MaxUnpool2d(conv1x1_block(t, in_channels, out_channels), max_indices, 2)

bottleneck_factor == 4

(* ENetUnit.forward: [x, max_indices]; max_indices is what the unit was    *)
(* given unless it is a down unit that resizes.                            *)
ENetUnit(t, max_indices, in_channels, out_channels, k, pad, dil, use_asym_conv, down) ==
    LET resize_identity == in_channels # out_channels
        mid_channels == in_channels \div bottleneck_factor
        ident == IF ~resize_identity THEN [x |-> t, max_indices |-> max_indices]
                 ELSE IF down THEN DownBlock(t, out_channels - in_channels, k, pad)
                 ELSE [x |-> UpBlock(t, max_indices, in_channels, out_channels),
                       max_indices |-> max_indices]
        c1 == IF resize_identity /\ down
              THEN ConvBlock(t, in_channels, mid_channels, 2, 2, 0, 1)
              ELSE conv1x1_block(t, in_channels, mid_channels)
        c2 == IF ~resize_identity
              THEN IF use_asym_conv THEN AsymConvBlock(c1, mid_channels, k, pad, dil)
                   ELSE ConvBlock(c1, mid_channels, mid_channels, k, 1, pad, dil)
              ELSE IF down THEN ConvBlock(c1, mid_channels, mid_channels, k, 1, pad, dil)
              ELSE DeconvBlock(c1, mid_channels, mid_channels, k, 2, pad, 1, dil)
        c3 == conv1x1_block(c2, mid_channels, out_channels)
    IN  [x |-> Add(c3, ident.x), max_indices |-> ident.max_indices]

(* The configuration ENet.__init__ builds the stages from. *)
init_channels == 16
channels == <<64, 128, 64, 16>>
kernel_sizes == <<<<3, 3, 3, 3, 3>>, <<3, 3, 3, 5, 3, 3, 3, 5, 3, 3, 3, 5, 3, 3, 3, 5, 3>>,
                  <<3, 3, 3>>, <<3, 3>>>>
paddings == <<<<1, 1, 1, 1, 1>>, <<1, 1, 2, 2, 4, 1, 8, 2, 16, 1, 2, 2, 4, 1, 8, 2, 16>>,
              <<1, 1, 1>>, <<1, 1>>>>
dilations == <<<<1, 1, 1, 1, 1>>, <<1, 1, 2, 1, 4, 1, 8, 1, 16, 1, 2, 1, 4, 1, 8, 1, 16>>,
               <<1, 1, 1>>, <<1, 1>>>>
use_asym_convs == <<<<0, 0, 0, 0, 0>>, <<0, 0, 0, 1, 0, 0, 0, 1, 0, 0, 0, 1, 0, 0, 0, 1, 0>>,
                    <<0, 0, 0>>, <<0, 0>>>>
downs == <<1, 1, 0, 0>>
num_classes == 19
in_channels_default == 3

(* Unit k of stage st (ENetStage.__init__): the first unit, scale_unit,    *)
(* takes the stage's input channels, the others the stage's output         *)
(* channels.                                                               *)
StageUnit(st, k, t, max_indices) ==
    ENetUnit(t, max_indices,
             IF k > 1 THEN channels[st] ELSE IF st = 1 THEN init_channels ELSE channels[st - 1],
             channels[st], kernel_sizes[st][k], paddings[st][k], dilations[st][k],
             use_asym_convs[st][k] = 1, downs[st] = 1)

(* ENet.forward, layer by layer; a stage runs its units one by one. *)
InitENet ==
    /\ PoseIdle
    /\ AffineIdle
    /\ net_in \in (1..MaxBatch) \X {1, in_channels_default} \X (1..MaxSize) \X (1..MaxSize)
    /\ net_x = Tensor(net_in)
    /\ max_indices1 = <<>>
    /\ max_indices2 = <<>>
    /\ net_pc = "steam"
    /\ net_unit = 1

Steam ==
    /\ net_pc = "steam"
    /\ net_x' = InitBlock(net_x, in_channels_default, init_channels, 3, 1)
    /\ net_pc' = IF net_x'.ok THEN "stage1" ELSE "error"
    /\ UNCHANGED <<net_in, max_indices1, max_indices2, net_unit, poseVars, affineVars>>

(* The next unit of stage st, the scale unit being given max_indices;      *)
(* after the last unit, forward goes on at next.                           *)
StageStep(st, max_indices, next) ==
    /\ net_x' = StageUnit(st, net_unit, net_x, max_indices).x
    /\ net_pc' = IF ~net_x'.ok THEN "error"
                 ELSE IF net_unit = Len(kernel_sizes[st]) THEN next
                 ELSE net_pc
    /\ net_unit' = IF net_x'.ok /\ net_unit < Len(kernel_sizes[st]) THEN net_unit + 1 ELSE 1

(* x, max_indices1 = self.stage1(x) *)
Stage1 ==
    /\ net_pc = "stage1"
    /\ StageStep(1, <<>>, "stage2")
    /\ max_indices1' = IF net_unit = 1 THEN StageUnit(1, 1, net_x, <<>>).max_indices
                       ELSE max_indices1
    /\ UNCHANGED <<net_in, max_indices2, poseVars, affineVars>>

(* x, max_indices2 = self.stage2(x) *)
Stage2 ==
    /\ net_pc = "stage2"
    /\ StageStep(2, <<>>, "stage3")
    /\ max_indices2' = IF net_unit = 1 THEN StageUnit(2, 1, net_x, <<>>).max_indices
                       ELSE max_indices2
    /\ UNCHANGED <<net_in, max_indices1, poseVars, affineVars>>

(* Mutant of Stage3Indices: the indices of stage1. *)
Stage3Indices_of_stage1 == max_indices1

(* x = self.stage3(x, max_indices2) *)
Stage3Indices == max_indices2

Stage3 ==
    /\ net_pc = "stage3"
    /\ StageStep(3, Stage3Indices, "stage4")
    /\ UNCHANGED <<net_in, max_indices1, max_indices2, poseVars, affineVars>>

(* x = self.stage4(x, max_indices1) *)
Stage4 ==
    /\ net_pc = "stage4"
    /\ StageStep(4, max_indices1, "head")
    /\ UNCHANGED <<net_in, max_indices1, max_indices2, poseVars, affineVars>>

(* x = self.head(x) *)
HeadLayer ==
    /\ net_pc = "head"
    /\ net_x' = ConvTranspose2d(net_x, channels[4], num_classes, 3, 2, 1, 1, 1)
    /\ net_pc' = IF net_x'.ok THEN "done" ELSE "error"
    /\ UNCHANGED <<net_in, max_indices1, max_indices2, net_unit, poseVars, affineVars>>

NextENet == Steam \/ Stage1 \/ Stage2 \/ Stage3 \/ Stage4 \/ HeadLayer

SpecENet == InitENet /\ [][NextENet]_vars

----------------------------------------------------------------------------
(* What the claims speak of, read off the input batch (of rank 4).         *)

NImages == batch_heatmaps.shape[1]
NJoints == batch_heatmaps.shape[2]
Height == batch_heatmaps.shape[3]
Width == batch_heatmaps.shape[4]
Joints == (0..(NImages - 1)) \X (0..(NJoints - 1))

(* The value at flat position k of the grid of joint j = <<image, joint>> *)
Flat(j, k) == batch_heatmaps.data[(j[1] * NJoints + j[2]) * Height * Width + k]
(* The value at row y, column x *)
At(j, y, x) == Flat(j, y * Width + x)
FlatIdx == 0..(Height * Width - 1)
MaxOf(j) == CHOOSE m \in {Flat(j, k) : k \in FlatIdx} : \A k \in FlatIdx : Flat(j, k) <= m
MaxIdx(j) == {k \in FlatIdx : Flat(j, k) = MaxOf(j)}
FirstMaxIdx(j) == CHOOSE k \in MaxIdx(j) : \A k2 \in MaxIdx(j) : k <= k2
CoordOf(k) == <<R(k % Width), R(k \div Width)>>

(* The state right after get_max_pred returned, for a batch of rank 4. *)
AfterGetMaxPred == pc = "post" /\ n = 0 /\ p = 0 /\ Rank(batch_heatmaps) = 4

(* C1: the confidence of every joint is the maximum of its grid and, when  *)
(* that maximum is > 0, the coordinate is (index mod W, floor(index / W))  *)
(* for a flat position index holding the maximum.                          *)
C1_PeakIsMaximum ==
    AfterGetMaxPred =>
        \A j \in Joints :
            /\ maxvals[j[1]][j[2]] = MaxOf(j)
            /\ MaxOf(j) > 0 => \E k \in MaxIdx(j) : coords[j[1]][j[2]] = CoordOf(k)

(* C1 witness: a positive peak off the first row and column of a grid that *)
(* is not square, its column different from its row.                       *)
C1_Witness ==
    /\ AfterGetMaxPred
    /\ Height # Width
    /\ maxvals[0][0] > 0
    /\ coords[0][0][1][1] > 0 /\ coords[0][0][2][1] > 0
    /\ coords[0][0][1] # coords[0][0][2]

C3_MaskedWhenNoSignal ==
    AfterGetMaxPred =>
        \A j \in Joints :
            /\ maxvals[j[1]][j[2]] <= 0 => coords[j[1]][j[2]] = <<R(0), R(0)>>
            /\ (\A k \in FlatIdx : Flat(j, k) = 0) =>
                   maxvals[j[1]][j[2]] = 0 /\ coords[j[1]][j[2]] = <<R(0), R(0)>>
            /\ maxvals[j[1]][j[2]] > 0 =>
                   coords[j[1]][j[2]] = <<R(FirstMaxIdx(j) % Width), R(FirstMaxIdx(j) \div Width)>>

(* C3 witness: a maximum of 0 that does not lie in the first cell. *)
C3_Witness ==
    /\ AfterGetMaxPred
    /\ maxvals[0][0] = 0
    /\ 0 \notin MaxIdx(<<0, 0>>)
    /\ coords[0][0] = <<R(0), R(0)>>

(* The rounded location of the joint the post-processing loop is at. *)
Px == Rounded(coords[n][p][1])
Py == Rounded(coords[n][p][2])
Interior == 1 < Px /\ Px < Width - 1 /\ 1 < Py /\ Py < Height - 1

(* C4: a joint whose rounded location is strictly inside the band moves by *)
(* 0.25 times the sign of the difference of its two neighbours, on each    *)
(* axis (so by 0 where the two neighbours are equal).                      *)
C4_QuarterShift ==
    [][(pc = "post" /\ Rank(batch_heatmaps) = 4 /\ Interior) =>
          /\ pc' # "error"
          /\ coords'[n][p] =
                <<RAdd(coords[n][p][1],
                       IF At(<<n, p>>, Py, Px + 1) > At(<<n, p>>, Py, Px - 1) THEN <<1, 4>>
                       ELSE IF At(<<n, p>>, Py, Px + 1) < At(<<n, p>>, Py, Px - 1) THEN <<-1, 4>>
                       ELSE <<0, 1>>),
                  RAdd(coords[n][p][2],
                       IF At(<<n, p>>, Py + 1, Px) > At(<<n, p>>, Py - 1, Px) THEN <<1, 4>>
                       ELSE IF At(<<n, p>>, Py + 1, Px) < At(<<n, p>>, Py - 1, Px) THEN <<-1, 4>>
                       ELSE <<0, 1>>)>>]_vars

(* C4 witness: the loop is over and the joint has moved by a quarter along *)
(* x and by nothing along y, its upper and lower neighbours being equal    *)
(* and above the background.                                               *)
C4_Witness ==
    /\ pc = "transform"
    /\ Rank(batch_heatmaps) = 4
    /\ coords[0][0][1][2] = 4
    /\ coords[0][0][2][2] = 1
    /\ At(<<0, 0>>, coords[0][0][2][1] + 1, Rounded(coords[0][0][1])) =
           At(<<0, 0>>, coords[0][0][2][1] - 1, Rounded(coords[0][0][1]))
    /\ At(<<0, 0>>, coords[0][0][2][1] + 1, Rounded(coords[0][0][1])) >
           At(<<0, 0>>, 0, 0)

(* C5: a joint whose rounded location is not strictly inside the band      *)
(* keeps its coordinate, and no error is raised.                           *)
C5_OutsideBandUnchanged ==
    [][(pc = "post" /\ Rank(batch_heatmaps) = 4 /\ ~Interior) =>
          pc' # "error" /\ err' = "" /\ coords' = coords]_vars

(* C5 witness: the loop is over for a joint at px = 1 whose left and right *)
(* neighbours differ, with py inside the band; it has not moved.           *)
C5_Witness ==
    /\ pc = "transform"
    /\ Rank(batch_heatmaps) = 4
    /\ NImages = 1 /\ NJoints = 1
    /\ coords[0][0][1] = R(1)
    /\ coords[0][0][2][2] = 1
    /\ 1 < coords[0][0][2][1] /\ coords[0][0][2][1] < Height - 1
    /\ At(<<0, 0>>, coords[0][0][2][1], 2) # At(<<0, 0>>, coords[0][0][2][1], 0)

(* The coordinate decode is to return for joint j, from the heatmap alone: *)
(* the masked peak, refined inside the band, back-projected.               *)
PeakOf(j) ==
    IF MaxOf(j) > 0 THEN <<FirstMaxIdx(j) % Width, FirstMaxIdx(j) \div Width>> ELSE <<0, 0>>

SignOf(a, b) == IF a > b THEN <<1, 1>> ELSE IF a < b THEN <<-1, 1>> ELSE <<0, 1>>

RefinedOf(j) ==
    LET x == PeakOf(j)[1]
        y == PeakOf(j)[2]
    IN  IF 1 < x /\ x < Width - 1 /\ 1 < y /\ y < Height - 1
        THEN <<RAdd(R(x), RMul(Quarter, SignOf(At(j, y, x + 1), At(j, y, x - 1)))),
               RAdd(R(y), RMul(Quarter, SignOf(At(j, y + 1, x), At(j, y - 1, x))))>>
        ELSE <<R(x), R(y)>>

(* The image of heatmap point pt under the inverse of the crop with center *)
(* c and scale s at rotation 0: c + (s[0] / W) ((x, y) - (W/2, H/2)).      *)
BackProjected(pt, c, s) ==
    LET f == <<s[1], Width>>
    IN  <<RAdd(R(c[1]), RMul(f, RSub(pt[1], <<Width, 2>>))),
          RAdd(R(c[2]), RMul(f, RSub(pt[2], <<Height, 2>>)))>>

(* C7: decode returns the confidences of locate_peaks and, for every       *)
(* joint, the peak refined and then mapped to image space with output size *)
(* (W, H), the center and the scale of the joint's image.                  *)
C7_DecodeIsComposition ==
    (pc = "done" /\ Rank(batch_heatmaps) = 4) =>
        \A j \in Joints :
            /\ result.maxvals[j[1]][j[2]] = MaxOf(j)
            /\ result.preds[j[1]][j[2]] =
                   BackProjected(RefinedOf(j), center[j[1] + 1], scale[j[1] + 1])

(* C7 witness: decode has returned for a heatmap with a single positive    *)
(* cell, inside the band, and a scale that is not zero.                    *)
C7_Witness ==
    /\ pc = "done"
    /\ Rank(batch_heatmaps) = 4
    /\ Cardinality({k \in FlatIdx : Flat(<<0, 0>>, k) # 0}) = 1
    /\ MaxOf(<<0, 0>>) > 0
    /\ 1 < PeakOf(<<0, 0>>)[1] /\ PeakOf(<<0, 0>>)[1] < Width - 1
    /\ 1 < PeakOf(<<0, 0>>)[2] /\ PeakOf(<<0, 0>>)[2] < Height - 1
    /\ scale[1][1] # 0
    /\ result.preds[0][0] # RV(center[1])

(* C8 as stated, in what it says of the outcome: a call with a batch whose  *)
(* rank is not 4, or with center / scale arrays whose length is not the    *)
(* batch size, ends in an error and returns no result.                     *)
C8_BadShapeRejected ==
    (\/ Rank(batch_heatmaps) # 4
     \/ Len(center) # batch_heatmaps.shape[1]
     \/ Len(scale) # batch_heatmaps.shape[1]) =>
        (pc # "done" /\ result = "none")

(* C9 as stated: a zero scale ends decode in an error, never in a result. *)
C9_ZeroScaleSignalled ==
    (\E k \in 1..Len(scale) : k <= batch_heatmaps.shape[1] /\ scale[k][1] = 0) =>
        pc # "done"

OriginImage(k) ==
    LET f == Norm(scale[k + 1][1], Width)
    IN  <<RSub(R(center[k + 1][1]), RMul(f, Norm(Width, 2))),
          RSub(R(center[k + 1][2]), RMul(f, Norm(Height, 2)))>>

(* C13: when decode returns, a joint whose confidence is <= 0 is still at  *)
(* heatmap coordinate (0, 0) after the refinement loop and its prediction  *)
(* is the image of (0, 0), center - (scale_x / W) (W/2, H/2); any two such *)
(* joints of one image have the same prediction.                           *)
C13_MaskedJointsBackProjected ==
    (pc = "done" /\ Rank(batch_heatmaps) = 4) =>
        /\ \A j \in Joints :
               result.maxvals[j[1]][j[2]] <= 0 =>
                   /\ coords[j[1]][j[2]] = <<R(0), R(0)>>
                   /\ result.preds[j[1]][j[2]] = OriginImage(j[1])
        /\ \A j1, j2 \in Joints :
               (/\ j1[1] = j2[1]
                /\ result.maxvals[j1[1]][j1[2]] <= 0
                /\ result.maxvals[j2[1]][j2[2]] <= 0) =>
                   result.preds[j1[1]][j1[2]] = result.preds[j2[1]][j2[2]]

(* C13 witness: decode has returned for an image with two joints of        *)
(* confidence 0 and another image with a joint of positive confidence; the *)
(* two masked joints share the prediction (1, 3/2), which is not (0, 0).   *)
C13_Witness ==
    /\ pc = "done"
    /\ Rank(batch_heatmaps) = 4
    /\ NImages = 2 /\ NJoints = 2
    /\ result.maxvals[0][0] = 0 /\ result.maxvals[0][1] = 0
    /\ result.maxvals[1][0] > 0
    /\ result.preds[0][0] = <<R(1), <<3, 2>>>>
    /\ result.preds[0][1] = <<R(1), <<3, 2>>>>
    /\ result.preds[1][0] # result.preds[0][0]

(* The reference points as the text gives them, from the arguments alone.  *)
(* A scalar scale counts for both components.                              *)
ArgCenter == <<R(t_args.center[1]), R(t_args.center[2])>>
ArgScaleX == R(t_args.scale[1])
ArgScaleY == IF Len(t_args.scale) = 1 THEN R(t_args.scale[1]) ELSE R(t_args.scale[2])
ArgShifted ==
    <<RAdd(ArgCenter[1], RMul(ArgScaleX, R(t_args.shift[1]))),
      RAdd(ArgCenter[2], RMul(ArgScaleY, R(t_args.shift[2])))>>
ArgW == R(t_args.output_size[1])
ArgH == R(t_args.output_size[2])

(* v turned by t_args.rot degrees, a multiple of 90 *)
Rotated(v) ==
    CASE t_args.rot = 0 -> v
      [] t_args.rot = 90 -> <<RNeg(v[2]), v[1]>>
      [] t_args.rot = 180 -> <<RNeg(v[1]), RNeg(v[2])>>
      [] t_args.rot = 270 -> <<v[2], RNeg(v[1])>>

(* point1 + rotate90(point0 - point1) *)
ThirdOf(p0, p1) ==
    <<RSub(p1[1], RSub(p0[2], p1[2])), RAdd(p1[2], RSub(p0[1], p1[1]))>>

(* The six points, the source direction being rotate(dir, rotation). *)
PointsFrom(dir) ==
    LET s0 == ArgShifted
        s1 == <<RAdd(s0[1], Rotated(dir)[1]), RAdd(s0[2], Rotated(dir)[2])>>
        d0 == <<RMul(ArgW, Half), RMul(ArgH, Half)>>
        d1 == <<d0[1], RSub(d0[2], RMul(ArgW, Half))>>
    IN  [src |-> <<s0, s1, ThirdOf(s0, s1)>>, dst |-> <<d0, d1, ThirdOf(d0, d1)>>]

MapsSrcToDst == \A k \in 1..3 : affine_transform(src_points[k], trans_fwd) = dst_points[k]
MapsDstToSrc == \A k \in 1..3 : affine_transform(dst_points[k], trans_inv) = src_points[k]

(* C11 as stated: source point 1 lies at the 2-vector scale times          *)
(* [0, -0.5], rotated, from source point 0; the other points are as the    *)
(* text gives them; the transform returned maps every source point to its  *)
(* destination point, the inverse one every destination point to its       *)
(* source point.                                                           *)
C11_ReferencePointsAsStated ==
    LET pts == PointsFrom(<<RMul(ArgScaleX, R(0)), RMul(ArgScaleY, RNeg(Half))>>)
    IN  /\ t_pc \in {"forward", "inverse", "done"} =>
               src_points = pts.src /\ dst_points = pts.dst /\ MapsSrcToDst
        /\ t_pc \in {"inverse", "done"} => MapsDstToSrc

(* C11 amended: source point 1 lies at [0, -0.5 scale[0]], rotated, from   *)
(* source point 0 (the first component of scale alone gives the length);   *)
(* the other points are as the text gives them; the transform returned     *)
(* maps every source point to its destination point when scale[0] is not   *)
(* 0, the inverse one every destination point to its source point when the *)
(* output width is not 0.                                                  *)
C11_ReferencePoints ==
    LET pts == PointsFrom(<<R(0), RMul(ArgScaleX, RNeg(Half))>>)
    IN  /\ t_pc \in {"forward", "inverse", "done"} =>
               /\ src_points = pts.src
               /\ dst_points = pts.dst
               /\ t_args.scale[1] # 0 => MapsSrcToDst
        /\ t_pc \in {"inverse", "done"} =>
               (t_args.output_size[1] # 0 => MapsDstToSrc)

(* C11 witness: both transforms were returned for center (3, 4), scale     *)
(* (4, 8), rotation 90, shift (1, 2) and output size (4, 5): the source    *)
(* points are (7, 20), (9, 20), (9, 18), the destination points (2, 5/2),  *)
(* (2, 1/2), (0, 1/2), and each transform maps its third point.            *)
C11_Witness ==
    /\ t_pc = "inverse"
    /\ t_args.rot = 90
    /\ src_points = <<<<R(7), R(20)>>, <<R(9), R(20)>>, <<R(9), R(18)>>>>
    /\ dst_points = <<<<R(2), <<5, 2>>>>, <<R(2), <<1, 2>>>>, <<R(0), <<1, 2>>>>>>
    /\ affine_transform(src_points[3], trans_fwd) = dst_points[3]
    /\ affine_transform(dst_points[3], trans_inv) = src_points[3]

(* The points pts[1], pts[2], pts[3] form a right-angled triangle with the *)
(* right angle at pts[2] and legs that are not zero: the legs pts[1] -     *)
(* pts[2] and pts[3] - pts[2] have inner product 0, neither has length 0,  *)
(* and the area they span is not 0.                                        *)
RightTriangle(pts) ==
    LET ax == RSub(pts[1][1], pts[2][1])
        ay == RSub(pts[1][2], pts[2][2])
        bx == RSub(pts[3][1], pts[2][1])
        by == RSub(pts[3][2], pts[2][2])
    IN  /\ RAdd(RMul(ax, bx), RMul(ay, by)) = R(0)
        /\ RAdd(RMul(ax, ax), RMul(ay, ay)) # R(0)
        /\ RAdd(RMul(bx, bx), RMul(by, by)) # R(0)
        /\ RSub(RMul(ax, by), RMul(ay, bx)) # R(0)

(* The determinant of the linear part of the 2x3 matrix t *)
Det(t) == RSub(RMul(t[1][1], t[2][2]), RMul(t[1][2], t[2][1]))

ScaleNotZero == \E k \in 1..Len(t_args.scale) : t_args.scale[k] # 0
SizeNotZero == t_args.output_size[1] # 0 /\ t_args.output_size[2] # 0

(* C12 as stated: for a scale that is not zero and an output size of       *)
(* non-zero width and height, the source points and the destination        *)
(* points each form a right-angled triangle with non-zero legs.            *)
C12_NonCollinearAsStated ==
    (t_pc \in {"forward", "inverse", "done"} /\ ScaleNotZero /\ SizeNotZero) =>
        (RightTriangle(src_points) /\ RightTriangle(dst_points))

(* C12 amended: for a scale whose first component is not zero and an       *)
(* output size of non-zero width and height, the source points and the     *)
(* destination points each form a right-angled triangle with non-zero      *)
(* legs, and the solve is regular in both directions: each transform has a *)
(* linear part of non-zero determinant and maps the three points it was    *)
(* solved from onto the three others.                                      *)
C12_NonCollinear ==
    (t_args # <<>> /\ t_args.scale[1] # 0 /\ SizeNotZero) =>
        /\ t_pc \in {"forward", "inverse", "done"} =>
               /\ RightTriangle(src_points)
               /\ RightTriangle(dst_points)
               /\ Det(trans_fwd) # R(0)
               /\ \A k \in 1..3 : affine_transform(src_points[k], trans_fwd) = dst_points[k]
        /\ t_pc \in {"inverse", "done"} =>
               /\ Det(trans_inv) # R(0)
               /\ \A k \in 1..3 : affine_transform(dst_points[k], trans_inv) = src_points[k]

(* C12 witness: both transforms were solved at rotation 270 with a shift,  *)
(* for a scale whose second component is zero and whose first is not, and  *)
(* the source points span a triangle.                                      *)
C12_Witness ==
    /\ t_pc = "done"
    /\ t_args.rot = 270
    /\ t_args.scale = <<5, 0>>
    /\ t_args.shift = <<1, 2>>
    /\ t_args.output_size = <<4, 5>>
    /\ src_points[1] # src_points[2]
    /\ src_points[3] # src_points[1]
    /\ Det(trans_inv) # R(0)

(* center + (scale[0] / W) ((x, y) - (W/2, H/2)) for the point pt, from the *)
(* arguments of the first call.                                            *)
SameFactorImage(pt) ==
    LET f == Norm(tp_args.scale[1], tp_args.output_size[1])
    IN  <<RAdd(R(tp_args.center[1]), RMul(f, RSub(pt[1], Norm(tp_args.output_size[1], 2)))),
          RAdd(R(tp_args.center[2]), RMul(f, RSub(pt[2], Norm(tp_args.output_size[2], 2))))>>

(* C14: two calls of transform_preds that differ only in the second        *)
(* component of scale return the same predictions, each being              *)
(* center + (scale[0] / W) ((x, y) - (W/2, H/2)).                          *)
C14_SecondScaleIgnored ==
    /\ tp_pc \in {"other", "done"} =>
           \A pp \in DOMAIN tp_args.coords :
               target_coords[pp] = SameFactorImage(tp_args.coords[pp])
    /\ tp_pc = "done" => target_coords_other = target_coords

(* C14 witness: both calls have returned, for scale (96, 128) and for      *)
(* scale (96, 0), center (48, 64) and output size (48, 64); the point      *)
(* (2, 3) went to (4, 6) in both.                                          *)
C14_Witness ==
    /\ tp_pc = "done"
    /\ tp_args.scale = <<96, 128>>
    /\ tp_args.other = 0
    /\ tp_args.center = <<48, 64>>
    /\ tp_args.output_size = <<48, 64>>
    /\ tp_args.coords[1] = <<R(2), R(3)>>
    /\ target_coords[1] = <<R(4), R(6)>>
    /\ target_coords_other[1] = <<R(4), R(6)>>

(* C15: for a batch of shape (N, J, H, W), the rounded location of the     *)
(* joint the loop is at lies in the grid; every cell the loop has indexed  *)
(* is one of the four neighbours of the rounded location (px, py) of its   *)
(* joint, with 1 <= px - 1, px + 1 <= W - 1, 1 <= py - 1 and               *)
(* py + 1 <= H - 1, and so lies in the joint's grid; when W <= 3 or        *)
(* H <= 3 the loop indexes nothing and every coordinate stays whole.       *)
C15_ReadsInsideGrid ==
    (pc # "idle" /\ Rank(batch_heatmaps) = 4) =>
        /\ pc = "post" =>
               0 <= Px /\ Px <= Width - 1 /\ 0 <= Py /\ Py <= Height - 1
        /\ \A r \in reads :
               LET cx == Rounded(coords[r[1]][r[2]][1])
                   cy == Rounded(coords[r[1]][r[2]][2])
               IN  /\ <<r[1], r[2]>> \in Joints
                   /\ 0 <= r[3] /\ r[3] <= Height - 1
                   /\ 0 <= r[4] /\ r[4] <= Width - 1
                   /\ <<r[3], r[4]>> \in {<<cy, cx + 1>>, <<cy, cx - 1>>, <<cy + 1, cx>>, <<cy - 1, cx>>}
                   /\ 1 <= cx - 1 /\ cx + 1 <= Width - 1
                   /\ 1 <= cy - 1 /\ cy + 1 <= Height - 1
        /\ (Width <= 3 \/ Height <= 3) =>
               /\ reads = {}
               /\ pc \in {"post", "transform", "return", "done"} =>
                      \A j \in Joints : coords[j[1]][j[2]][1][2] = 1 /\ coords[j[1]][j[2]][2][2] = 1

(* C15 witness: the loop is over and has indexed four cells of the first   *)
(* joint, one of them in the last column and one in the last row.          *)
C15_Witness ==
    /\ pc = "transform"
    /\ Rank(batch_heatmaps) = 4
    /\ Cardinality({r \in reads : r[1] = 0 /\ r[2] = 0}) = 4
    /\ \E r \in reads : r[1] = 0 /\ r[2] = 0 /\ r[4] = Width - 1
    /\ \E r \in reads : r[1] = 0 /\ r[2] = 0 /\ r[3] = Height - 1

(* The layers of ENet.forward that have run. *)
Past(names) == net_pc \in names

====
